---------------------------- MODULE Spec2Model ----------------------------
(***************************************************************************)
(* The Database Cluster external adapter of provider-digitalocean: the     *)
(* four lifecycle verbs Observe / Create / Update / Delete of dbExternal,  *)
(* applied in any order to one managed-resource handle, against a remote   *)
(* database service (fetch, create, delete by identifier) and an object    *)
(* store (update), both of which may fail.                                 *)
(*                                                                         *)
(* Conventions:                                                            *)
(*   - a Go error is the sequence of its messages, outermost first; the    *)
(*     nil error is the empty sequence;                                    *)
(*   - a nil *string is the value Nil, a nil *godo.Database is NilDB;      *)
(*   - a nil and an empty []string are both << >> (no modelled code turns  *)
(*     one into the other);                                                *)
(*   - calls is the list of outbound calls the last verb issued, in order, *)
(*     and ret is what the last verb returned.                             *)
(***************************************************************************)
EXTENDS Integers, Sequences, FiniteSets, TLC

\* ---------------------------------------------------------------- bounds
MaxIds == 2

IdNames == <<"id1", "id2", "id3", "id4">>
IDs == {IdNames[i] : i \in 1..MaxIds}

\* ------------------------------------------------------------- constants
errNotDB == "managed resource is not a Database Cluster resource"
errGetDB == "cannot get a Database Cluster"
errDBNameRequired == "name of Database Cluster is required"
errDBCreateFailed == "creation of Database Cluster resource has failed"
errDBDeleteFailed == "deletion of Database Cluster resource has failed"
errDBUpdate == "cannot update managed Database Cluster resource"

StatusCreating == "creating"
StatusOnline == "online"
StatusMigrating == "migrating"
StatusResizing == "resizing"
StatusForking == "forking"

Nil == "<nil>"
\* the nil *godo.Database
NilDB == [ID |-> Nil]
NoErr == << >>

\* ------------------------------------------------------------ value sets
Kinds == {"DODatabaseCluster", "Other"}
Names == {"", "db"}
Statuses == {StatusCreating, StatusOnline, StatusMigrating, StatusResizing,
             StatusForking, "degraded"}
\* an existing cluster always has an engine
EngineSlugs == {"pg"}
TagSets == {<< >>, <<"x">>}
ObservedTagSets == {<< >>, <<"a", "b">>}

VARIABLES
    kind,        \* the dynamic type of the managed-resource handle mg
    name,        \* cr.GetName()
    extName,     \* the external-name annotation, "" when absent
    spec,        \* cr.Spec.ForProvider (DesiredState)
    writeSecret, \* cr.Spec.WriteConnectionSecretToReference != nil
    atProvider,  \* cr.Status.AtProvider (ObservedState)
    condition,   \* the resource's Ready condition
    remote,      \* identifiers of the clusters the remote service holds
    calls,       \* outbound calls issued by the last verb
    ret,         \* result of the last verb
    pc           \* "idle", or "crashed" after a panic

vars == <<kind, name, extName, spec, writeSecret, atProvider, condition,
          remote, calls, ret, pc>>

\* --------------------------------------------------------------- errors
\* errors.New(msg)
New(msg) == <<msg>>

\* errors.Wrap(err, msg): nil when err is nil
Wrap(err, msg) == IF err = NoErr THEN NoErr ELSE <<msg>> \o err

\* do.IgnoreNotFound(err, response): a not-found response is no error
IgnoreNotFound(err, response) == IF response = 404 THEN NoErr ELSE err

\* do.StringValue(p): "" for a nil pointer
StringValue(p) == IF p = Nil THEN "" ELSE p

\* do.LateInitializeString(p, from): p when set, else from when non-empty
LateInitializeString(p, from) ==
    IF p # Nil \/ from = "" THEN p ELSE from

\* ------------------------------------------------------- pure functions
\* Faulty variant: the version is read from the engine field.
GenerateDatabase_VersionFromEngine(n, in) ==
    [Name               |-> n,
     EngineSlug         |-> StringValue(in.Engine),
     Version            |-> StringValue(in.Engine),
     NumNodes           |-> in.NumNodes,
     SizeSlug           |-> in.Size,
     Region             |-> in.Region,
     PrivateNetworkUUID |-> StringValue(in.PrivateNetworkUUID),
     Tags               |-> in.Tags]

GenerateDatabase(n, in) ==
    [Name               |-> n,
     EngineSlug         |-> StringValue(in.Engine),
     Version            |-> StringValue(in.Version),
     NumNodes           |-> in.NumNodes,
     SizeSlug           |-> in.Size,
     Region             |-> in.Region,
     PrivateNetworkUUID |-> StringValue(in.PrivateNetworkUUID),
     Tags               |-> in.Tags]

\* Faulty variant: observed tags replace the desired ones whenever there are
\* any.
LateInitializeSpec_OverwriteTags(p, observed) ==
    [p EXCEPT
       !.Version = LateInitializeString(p.Version, observed.EngineSlug),
       !.PrivateNetworkUUID =
           LateInitializeString(p.PrivateNetworkUUID, observed.PrivateNetworkUUID),
       !.Tags = IF Len(observed.Tags) # 0 THEN observed.Tags ELSE p.Tags]

\* Faulty variant: observed tags are merged into the desired ones.
LateInitializeSpec_MergeTags(p, observed) ==
    [p EXCEPT
       !.Version = LateInitializeString(p.Version, observed.EngineSlug),
       !.PrivateNetworkUUID =
           LateInitializeString(p.PrivateNetworkUUID, observed.PrivateNetworkUUID),
       !.Tags = IF Len(observed.Tags) # 0
                THEN p.Tags \o observed.Tags ELSE p.Tags]

LateInitializeSpec(p, observed) ==
    [p EXCEPT
       !.Version = LateInitializeString(p.Version, observed.EngineSlug),
       !.PrivateNetworkUUID =
           LateInitializeString(p.PrivateNetworkUUID, observed.PrivateNetworkUUID),
       !.Tags = IF Len(p.Tags) = 0 /\ Len(observed.Tags) # 0
                THEN observed.Tags ELSE p.Tags]

\* dodb.GenerateObservation(observed): the mirror of the remote cluster
GenerateObservation(observed) ==
    [ID |-> observed.ID, Status |-> observed.Status]

\* Faulty variant: the empty cases fall through to the next one.
setCrossplaneStatus_Fallthrough(cond, status) ==
    CASE status = StatusCreating -> "Creating"
      [] status = StatusOnline -> "Available"
      [] status = StatusMigrating -> "Unavailable"
      [] status = StatusResizing -> "Unavailable"
      [] status = StatusForking -> "Unavailable"
      [] OTHER -> cond

setCrossplaneStatus(cond, status) ==
    CASE status = StatusCreating -> "Creating"
      [] status = StatusOnline -> "Available"
      [] status = StatusMigrating -> cond
      [] status = StatusResizing -> cond
      [] status = StatusForking -> "Unavailable"
      [] OTHER -> cond

\* ------------------------------------------------------ remote service
\* What c.Databases.Get(ctx, id) may return.
GetResponses(id) ==
    {[db |-> [ID |-> id, Status |-> s, EngineSlug |-> e,
              PrivateNetworkUUID |-> u, Tags |-> t],
      code |-> 200, err |-> NoErr] :
        s \in (IF id \in remote THEN Statuses ELSE {}),
        e \in EngineSlugs, u \in {"", "vpc"}, t \in ObservedTagSets}
    \cup (IF id \notin remote
          THEN {[db |-> NilDB, code |-> 404, err |-> <<"404 not found">>]}
          ELSE {})
    \cup {[db |-> NilDB, code |-> 500, err |-> <<"500 server error">>]}

\* What c.Databases.Create(ctx, create) may return.
CreateResponses ==
    {[db |-> [ID |-> id], code |-> 201, err |-> NoErr] : id \in IDs \ remote}
    \cup {[db |-> NilDB, code |-> 500, err |-> <<"500 server error">>],
          [db |-> NilDB, code |-> 201, err |-> NoErr]}

\* What c.Databases.Delete(ctx, id) may return.
DeleteResponses(id) ==
    (IF id \in remote
     THEN {[db |-> NilDB, code |-> 204, err |-> NoErr]}
     ELSE {[db |-> NilDB, code |-> 404, err |-> <<"404 not found">>]})
    \cup {[db |-> NilDB, code |-> 500, err |-> <<"500 server error">>]}

\* What c.kube.Update(ctx, cr) may return.
KubeUpdateResponses == {NoErr, <<"conflict">>}

\* ------------------------------------------------------------- helpers
\* One outbound call: the argument it was issued with, and the result, the
\* response code and the error it returned (for a returned cluster, its
\* identifier).
Call(api, arg, r) ==
    [api |-> api, arg |-> arg,
     res |-> r.db.ID, code |-> r.code, err |-> r.err]

Ret(op, exists, upToDate, err, cd) ==
    [op |-> op, exists |-> exists, upToDate |-> upToDate, err |-> err,
     cd |-> cd, panic |-> FALSE]

\* Faulty variant: the type assertion accepts any resource.
TypeAssert_Unchecked(k) == TRUE

\* mg.(*v1alpha1.DODatabaseCluster)
TypeAssert(k) == k = "DODatabaseCluster"

\* ---------------------------------------------------------------- Init
Init ==
    /\ kind \in Kinds
    /\ name \in Names
    /\ extName \in {""} \cup IDs
    /\ spec \in [Engine : {"pg"}, Version : {Nil, "12"}, NumNodes : {1},
                 Size : {"s-1vcpu"}, Region : {"nyc1"},
                 PrivateNetworkUUID : {Nil, "net"}, Tags : TagSets]
    /\ writeSecret \in BOOLEAN
    /\ atProvider = [ID |-> Nil, Status |-> ""]
    /\ condition = "unspecified"
    /\ remote \in SUBSET IDs
    /\ calls = << >>
    /\ ret = [op |-> "none", exists |-> FALSE, upToDate |-> FALSE,
              err |-> NoErr, cd |-> FALSE, panic |-> FALSE]
    /\ pc = "idle"

\* ------------------------------------------------------------- Observe
\* Faulty variant: the empty external name is fetched like any other.
HasExternalName_Always(en) == TRUE

\* en == "" is the resource that has no external identity yet
HasExternalName(en) == en # ""

\* Faulty variant: a not-found fetch is reported like any other failure.
ObserveGetError_NotFoundFatal(r) == Wrap(r.err, errGetDB)

\* The error Observe returns when the remote fetch has failed.
ObserveGetError(r) == Wrap(IgnoreNotFound(r.err, r.code), errGetDB)

ObserveNotDB ==
    /\ ~TypeAssert(kind)
    /\ ret' = Ret("Observe", FALSE, FALSE, New(errNotDB), FALSE)
    /\ calls' = << >>
    /\ UNCHANGED <<spec, atProvider, condition>>

ObserveNoExternalName ==
    /\ TypeAssert(kind)
    /\ ~HasExternalName(extName)
    /\ ret' = Ret("Observe", FALSE, FALSE, NoErr, FALSE)
    /\ calls' = << >>
    /\ UNCHANGED <<spec, atProvider, condition>>

ObserveGetFailed(r) ==
    /\ r.err # NoErr
    /\ ret' = Ret("Observe", FALSE, FALSE, ObserveGetError(r), FALSE)
    /\ calls' = <<Call("Get", extName, r)>>
    /\ UNCHANGED <<spec, atProvider, condition>>

\* Faulty variant: a difference in tags is reported as not up to date.
ResourceUpToDate_TagDrift(p, observed) == p.Tags = observed.Tags

\* ResourceUpToDate: true, whatever is desired and whatever is observed
ResourceUpToDate(p, observed) == TRUE

\* Faulty variant: the resource is persisted after every fetch.
SpecChanged_Always(currentSpec, lateSpec) == TRUE

\* !cmp.Equal(currentSpec, &cr.Spec.ForProvider)
SpecChanged(currentSpec, lateSpec) == currentSpec # lateSpec

\* Faulty variant: a status the mapper does not know marks the resource
\* unavailable.
ObserveRefresh_DefaultUnavailable(observed) ==
    /\ atProvider' = GenerateObservation(observed)
    /\ condition' =
         IF observed.Status \in {StatusCreating, StatusOnline, StatusForking}
         THEN setCrossplaneStatus(condition, observed.Status)
         ELSE "Unavailable"

ObserveRefresh(observed) ==
    /\ atProvider' = GenerateObservation(observed)
    /\ condition' = setCrossplaneStatus(condition, atProvider'.Status)

ObserveFound(r) ==
    /\ r.err = NoErr
    /\ LET currentSpec == spec
           lateSpec == LateInitializeSpec(spec, r.db)
       IN /\ spec' = lateSpec
          /\ IF SpecChanged(currentSpec, lateSpec)
             THEN \E e \in KubeUpdateResponses :
                    /\ calls' = <<Call("Get", extName, r),
                                  Call("kube.Update", "cr",
                                       [db |-> NilDB, code |-> 0, err |-> e])>>
                    /\ IF e # NoErr
                       THEN /\ ret' = Ret("Observe", FALSE, FALSE,
                                          Wrap(e, errDBUpdate), FALSE)
                            /\ UNCHANGED <<atProvider, condition>>
                       ELSE /\ ObserveRefresh(r.db)
                            /\ ret' = Ret("Observe", TRUE,
                                          ResourceUpToDate(lateSpec, r.db),
                                          NoErr, FALSE)
             ELSE /\ calls' = <<Call("Get", extName, r)>>
                  /\ ObserveRefresh(r.db)
                  /\ ret' = Ret("Observe", TRUE,
                                ResourceUpToDate(lateSpec, r.db), NoErr, FALSE)

Observe ==
    /\ pc = "idle"
    /\ \/ ObserveNotDB
       \/ ObserveNoExternalName
       \/ /\ TypeAssert(kind)
          /\ HasExternalName(extName)
          /\ \E r \in GetResponses(extName) :
                ObserveGetFailed(r) \/ ObserveFound(r)
    /\ UNCHANGED <<kind, name, extName, writeSecret, remote, pc>>

\* -------------------------------------------------------------- Create
\* The name the cluster is created under: the external name when there is
\* one, else the resource's name.
ResolveName(en, n) == IF en # "" THEN en ELSE n

\* Faulty variant: the empty name is let through to the remote call.
NameMissing_Never(n) == FALSE

\* name == ""
NameMissing(n) == n = ""

\* err != nil || db == nil
CreateFailed(r) == r.err # NoErr \/ r.db = NilDB

\* The error Create returns when the remote create has failed.
CreateError(r) == Wrap(r.err, errDBCreateFailed)

\* ec.ConnectionDetails is filled only on request
ConnectionDetails(ws) == ws

CreateNotDB ==
    /\ ~TypeAssert(kind)
    /\ ret' = Ret("Create", FALSE, FALSE, New(errNotDB), FALSE)
    /\ calls' = << >>
    /\ UNCHANGED <<extName, condition, remote>>

\* Faulty variant: the condition is set only once the name is known.
CreateNameRequired_ConditionLate ==
    /\ TypeAssert(kind)
    /\ NameMissing(ResolveName(extName, name))
    /\ ret' = Ret("Create", FALSE, FALSE, New(errDBNameRequired), FALSE)
    /\ calls' = << >>
    /\ UNCHANGED <<extName, remote, condition>>

CreateNameRequired ==
    /\ TypeAssert(kind)
    /\ condition' = "Creating"
    /\ NameMissing(ResolveName(extName, name))
    /\ ret' = Ret("Create", FALSE, FALSE, New(errDBNameRequired), FALSE)
    /\ calls' = << >>
    /\ UNCHANGED <<extName, remote>>

\* Faulty variant: the external name is bound to the name the cluster was
\* created under instead of the identifier it was assigned.
CreateRemote_BindsName ==
    /\ TypeAssert(kind)
    /\ condition' = "Creating"
    /\ ~NameMissing(ResolveName(extName, name))
    /\ LET create == GenerateDatabase(ResolveName(extName, name), spec)
       IN \E r \in CreateResponses :
            /\ calls' = <<Call("Create", create, r)>>
            /\ IF CreateFailed(r)
               THEN /\ ret' = Ret("Create", FALSE, FALSE, CreateError(r), FALSE)
                    /\ UNCHANGED <<extName, remote>>
               ELSE /\ extName' = create.Name
                    /\ remote' = remote \cup {r.db.ID}
                    /\ ret' = Ret("Create", FALSE, FALSE, NoErr,
                                  ConnectionDetails(writeSecret))

CreateRemote ==
    /\ TypeAssert(kind)
    /\ condition' = "Creating"
    /\ ~NameMissing(ResolveName(extName, name))
    /\ LET create == GenerateDatabase(ResolveName(extName, name), spec)
       IN \E r \in CreateResponses :
            /\ calls' = <<Call("Create", create, r)>>
            /\ IF CreateFailed(r)
               THEN /\ ret' = Ret("Create", FALSE, FALSE, CreateError(r), FALSE)
                    /\ UNCHANGED <<extName, remote>>
               ELSE /\ extName' = r.db.ID
                    /\ remote' = remote \cup {r.db.ID}
                    /\ ret' = Ret("Create", FALSE, FALSE, NoErr,
                                  ConnectionDetails(writeSecret))

Create ==
    /\ pc = "idle"
    /\ CreateNotDB \/ CreateNameRequired \/ CreateRemote
    /\ UNCHANGED <<kind, name, spec, writeSecret, atProvider, pc>>

\* -------------------------------------------------------------- Update
\* Faulty variant: Update asserts the resource kind like the other verbs.
Update_TypeChecked ==
    /\ pc = "idle"
    /\ ret' = Ret("Update", FALSE, FALSE,
                  IF TypeAssert(kind) THEN NoErr ELSE New(errNotDB), FALSE)
    /\ calls' = << >>
    /\ UNCHANGED <<kind, name, extName, spec, writeSecret, atProvider,
                   condition, remote, pc>>

\* We don't allow the updating of databases right now.
Update ==
    /\ pc = "idle"
    /\ ret' = Ret("Update", FALSE, FALSE, NoErr, FALSE)
    /\ calls' = << >>
    /\ UNCHANGED <<kind, name, extName, spec, writeSecret, atProvider,
                   condition, remote, pc>>

\* -------------------------------------------------------------- Delete
\* The identifier the remote delete is issued with: *cr.Status.AtProvider.ID
DeleteKey == atProvider.ID

\* Faulty variant: a not-found delete is reported like any other failure.
DeleteError_NotFoundFatal(r) == Wrap(r.err, errDBDeleteFailed)

\* The error Delete returns after the remote delete.
DeleteError(r) == Wrap(IgnoreNotFound(r.err, r.code), errDBDeleteFailed)

DeleteNotDB ==
    /\ ~TypeAssert(kind)
    /\ ret' = Ret("Delete", FALSE, FALSE, New(errNotDB), FALSE)
    /\ calls' = << >>
    /\ UNCHANGED <<condition, remote, pc>>

\* Dereferencing the nil AtProvider.ID panics.
DeletePanic ==
    /\ TypeAssert(kind)
    /\ condition' = "Deleting"
    /\ DeleteKey = Nil
    /\ pc' = "crashed"
    /\ ret' = [Ret("Delete", FALSE, FALSE, NoErr, FALSE) EXCEPT !.panic = TRUE]
    /\ calls' = << >>
    /\ UNCHANGED remote

DeleteRemote ==
    /\ TypeAssert(kind)
    /\ condition' = "Deleting"
    /\ DeleteKey # Nil
    /\ \E r \in DeleteResponses(DeleteKey) :
         /\ calls' = <<Call("Delete", DeleteKey, r)>>
         /\ remote' = IF r.err = NoErr THEN remote \ {DeleteKey} ELSE remote
         /\ ret' = Ret("Delete", FALSE, FALSE, DeleteError(r), FALSE)
    /\ UNCHANGED pc

Delete ==
    /\ pc = "idle"
    /\ DeleteNotDB \/ DeletePanic \/ DeleteRemote
    /\ UNCHANGED <<kind, name, extName, spec, writeSecret, atProvider>>

Next == Observe \/ Create \/ Update \/ Delete

Spec == Init /\ [][Next]_vars

\* ======================================================================
\* The helper functions on their own: each step applies one of
\* LateInitializeSpec, setCrossplaneStatus and GenerateDatabase to inputs
\* drawn from the sets below.  spec holds the desired state passed in (and
\* mutated in place), condition and atProvider.Status the resource the
\* status mapper works on, calls the other arguments and the value built.
\* ======================================================================
Conditions == {"unspecified", "Creating", "Available", "Unavailable", "Deleting"}

DesiredStates ==
    [Engine : {Nil, "pg"}, Version : {Nil, "12"}, NumNodes : {1, 3},
     Size : {"s-1vcpu", "s-2vcpu"}, Region : {"nyc1"},
     PrivateNetworkUUID : {Nil, "net"}, Tags : TagSets]

ObservedDBs ==
    [ID : {"id1"}, Status : {StatusOnline}, EngineSlug : {"", "pg"},
     PrivateNetworkUUID : {"", "vpc"}, Tags : ObservedTagSets]

HelperCall(fn, arg, res) ==
    [api |-> fn, arg |-> arg, res |-> res, code |-> 0, err |-> NoErr]

HelperInit ==
    /\ kind = "DODatabaseCluster"
    /\ name = "db"
    /\ extName = ""
    /\ spec \in DesiredStates
    /\ writeSecret = FALSE
    /\ atProvider = [ID |-> Nil, Status |-> ""]
    /\ condition \in Conditions
    /\ remote = {}
    /\ calls = << >>
    /\ ret = [op |-> "none", exists |-> FALSE, upToDate |-> FALSE,
              err |-> NoErr, cd |-> FALSE, panic |-> FALSE]
    /\ pc = "idle"

ApplyLateInitializeSpec ==
    /\ \E observed \in ObservedDBs :
         /\ spec' = LateInitializeSpec(spec, observed)
         /\ calls' = <<HelperCall("LateInitializeSpec", observed, Nil)>>
    /\ ret' = Ret("LateInitializeSpec", FALSE, FALSE, NoErr, FALSE)
    /\ UNCHANGED <<kind, name, extName, writeSecret, atProvider, condition,
                   remote, pc>>

ApplySetCrossplaneStatus ==
    /\ \E status \in Statuses :
         /\ atProvider' = [atProvider EXCEPT !.Status = status]
         /\ condition' = setCrossplaneStatus(condition, status)
    /\ calls' = << >>
    /\ ret' = Ret("setCrossplaneStatus", FALSE, FALSE, NoErr, FALSE)
    /\ UNCHANGED <<kind, name, extName, spec, writeSecret, remote, pc>>

ApplyGenerateDatabase ==
    /\ \E n \in Names :
         calls' = <<HelperCall("GenerateDatabase", n, GenerateDatabase(n, spec))>>
    /\ ret' = Ret("GenerateDatabase", FALSE, FALSE, NoErr, FALSE)
    /\ UNCHANGED <<kind, name, extName, spec, writeSecret, atProvider,
                   condition, remote, pc>>

HelperNext ==
    ApplyLateInitializeSpec \/ ApplySetCrossplaneStatus \/ ApplyGenerateDatabase

SpecHelpers == HelperInit /\ [][HelperNext]_vars

\* ======================================================================
\* The reconcile loop on one Database Cluster that has a name and no
\* external name yet, against a remote service that holds no cluster and an
\* object store whose calls all succeed: Observe, then Create only when
\* Observe has reported exists=false, one verb at a time, forever.
\* ======================================================================
\* Every outbound call of the last verb succeeded (a create returned a
\* cluster).
AllCallsSucceed ==
    \A i \in 1..Len(calls) :
        /\ calls[i].err = NoErr
        /\ (calls[i].api = "Create" => calls[i].res # Nil)

\* The last verb was an Observe that reported exists=false.
NeedsCreate == ret.op = "Observe" /\ ret.err = NoErr /\ ~ret.exists

LoopInit ==
    /\ Init
    /\ kind = "DODatabaseCluster"
    /\ name # ""
    /\ extName = ""
    /\ remote = {}

LoopObserve == ~NeedsCreate /\ Observe /\ AllCallsSucceed'

LoopCreate == NeedsCreate /\ Create /\ AllCallsSucceed'

LoopNext == LoopObserve \/ LoopCreate

SpecLoop == LoopInit /\ [][LoopNext]_vars /\ WF_vars(LoopNext)

\* ======================================================================
\* Properties
\* ======================================================================
IsDB == kind = "DODatabaseCluster"

\* The state of the resource itself (everything a verb may touch on mg).
resource == <<extName, spec, atProvider, condition>>

\* The remote create of the last Create came back with an error or without
\* a cluster.
RemoteCreateFailed ==
    /\ ret.op = "Create"
    /\ Len(calls) = 1
    /\ calls[1].api = "Create"
    /\ (calls[1].err # NoErr \/ calls[1].res = Nil)

\* C1: whenever the remote create call returns an error or a nil cluster
\* (a nil cluster with a nil error included), Create returns a non-nil error
\* and binds no external name.
C1_CreateFailureIsError ==
    [][RemoteCreateFailed' => (ret'.err # NoErr /\ extName' = extName)]_vars

\* C2: every remote fetch-by-identifier and delete-by-identifier call is
\* issued with the resource's current external name.
C2_ExternalNameIsSoleKey ==
    \A i \in 1..Len(calls) :
        calls[i].api \in {"Get", "Delete"} => calls[i].arg = extName

\* C3: Delete on a Database Cluster in any reachable state returns (nil or
\* an error); it never panics.
C3_DeleteNeverPanics ==
    ret.op = "Delete" => ~ret.panic

\* C4: once the external name is non-empty, no verb changes it.
C4_ExternalNameImmutable ==
    [][extName # "" => extName' = extName]_vars

\* C5: Observe on a Database Cluster whose external name is empty returns
\* exists=false and no error, and issues no remote call and no object-store
\* write.  (Observe leaves the external name as it found it.)
C5_ObserveWithoutExternalName ==
    (ret.op = "Observe" /\ IsDB /\ extName = "")
        => (~ret.exists /\ ret.err = NoErr /\ calls = << >>)

C5_Witness ==
    ret.op = "Observe" /\ IsDB /\ extName = "" /\ name = "db" /\ ~ret.exists

\* C6: Create on a Database Cluster whose external name and resource name
\* are both empty returns the name-required error, issues no remote create
\* call and binds no external name.
C6_CreateNameRequired ==
    [][(ret'.op = "Create" /\ IsDB /\ extName = "" /\ name = "")
         => (ret'.err = New(errDBNameRequired) /\ calls' = << >>
             /\ extName' = "" /\ remote' = remote)]_vars

C6_Witness ==
    /\ ret.op = "Create" /\ IsDB /\ extName = "" /\ name = ""
    /\ ret.err = New(errDBNameRequired)

\* C7: when the remote delete reports not-found, Delete returns nil; when it
\* fails with any other error, Delete returns that error wrapped with the
\* delete-failed tag; when it succeeds, Delete returns nil.
C7_DeleteResult ==
    (ret.op = "Delete" /\ calls # << >>)
        => /\ Len(calls) = 1
           /\ calls[1].api = "Delete"
           /\ (calls[1].code = 404 => ret.err = NoErr)
           /\ (calls[1].err = NoErr => ret.err = NoErr)
           /\ (calls[1].code # 404 /\ calls[1].err # NoErr
                 => ret.err = <<errDBDeleteFailed>> \o calls[1].err)

C7_Witness ==
    /\ ret.op = "Delete" /\ calls # << >>
    /\ calls[1].code = 404 /\ calls[1].err # NoErr /\ ret.err = NoErr

\* C8 (as stated): each of the four verbs, invoked on a handle that is not a
\* Database Cluster, returns the not-a-Database-Cluster error, with no
\* remote call and no state change.
C8_TypeMismatchAlwaysFatal ==
    [][~IsDB => (ret'.err = New(errNotDB) /\ calls' = << >>
                 /\ UNCHANGED <<resource, remote>>)]_vars

\* C8 (amended): Observe, Create and Delete, invoked on a handle that is not
\* a Database Cluster, return the not-a-Database-Cluster error; Update makes
\* no type check and returns its no-op success; none of the four issues a
\* remote call or changes any state.
C8_TypeMismatch ==
    [][~IsDB => /\ ret'.op \in {"Observe", "Create", "Update", "Delete"}
                /\ (ret'.op # "Update" => ret'.err = New(errNotDB))
                /\ (ret'.op = "Update" => ret'.err = NoErr)
                /\ calls' = << >>
                /\ UNCHANGED <<resource, remote>>]_vars

C8_Witness ==
    ~IsDB /\ ret.op = "Delete" /\ ret.err = New(errNotDB) /\ extName # ""

\* C9: Update returns an empty result and a nil error whatever its input,
\* issues no remote call and no object-store write, and leaves DesiredState,
\* ObservedState, Condition and the external name unchanged.
C9_UpdateIsNoOp ==
    [][ret'.op = "Update"
         => (ret'.err = NoErr /\ ~ret'.panic /\ calls' = << >>
             /\ UNCHANGED <<resource, remote, pc>>)]_vars

C9_Witness ==
    ret.op = "Update" /\ ~IsDB /\ ret.err = NoErr

\* C10: Observe with a non-empty external name: when the remote fetch
\* reports not-found, Observe returns exists=false with a nil error; when it
\* fails with any other error, Observe returns that error wrapped with the
\* cannot-get tag; in both cases nothing is written to the object store.
C10_ObserveGetFailure ==
    (ret.op = "Observe" /\ calls # << >> /\ calls[1].err # NoErr)
        => /\ extName # ""
           /\ calls[1].api = "Get"
           /\ Len(calls) = 1
           /\ (calls[1].code = 404 => ~ret.exists /\ ret.err = NoErr)
           /\ (calls[1].code # 404
                 => ret.err = <<errGetDB>> \o calls[1].err)

C10_Witness ==
    /\ ret.op = "Observe" /\ calls # << >>
    /\ calls[1].code = 404 /\ ~ret.exists /\ ret.err = NoErr

\* C11: every Observe that returns exists=true also returns upToDate=true,
\* whatever the desired and the observed configuration are.
C11_ObserveAlwaysUpToDate ==
    (ret.op = "Observe" /\ ret.exists) => ret.upToDate

\* A successful Observe of a resource whose desired tags differ from every
\* tag set the remote service reports.
C11_Witness ==
    /\ ret.op = "Observe" /\ ret.exists /\ ret.upToDate
    /\ spec.Tags = <<"x">> /\ spec.Tags \notin ObservedTagSets
    /\ spec.Version = "12"

\* The desired state before (p) and after (q) a LateInitializeSpec step, and
\* the observed cluster (o) it was given.
LateInitStep == ret'.op = "LateInitializeSpec"

\* C12 (as stated): the Late-Initializer changes a field if and only if it
\* was unset/empty before the call; a set version and a set private-network
\* id are kept, an unset one takes the observed value; a non-empty tag set is
\* kept, an empty one becomes a copy of the observed tags.
C12_LateInitChangesIffUnset ==
    [][LateInitStep =>
         LET p == spec
             q == spec'
             o == calls'[1].arg
         IN /\ (q.Version # p.Version <=> p.Version = Nil)
            /\ (q.PrivateNetworkUUID # p.PrivateNetworkUUID
                  <=> p.PrivateNetworkUUID = Nil)
            /\ (q.Tags # p.Tags <=> p.Tags = << >>)
            /\ (p.Version = Nil => q.Version = o.EngineSlug)
            /\ (p.PrivateNetworkUUID = Nil
                  => q.PrivateNetworkUUID = o.PrivateNetworkUUID)
            /\ (p.Tags = << >> => q.Tags = o.Tags)]_vars

\* C12 (amended): the Late-Initializer changes a field only if it was
\* unset/empty before the call and the observed value is not empty: a set
\* version and a set private-network id are kept; an unset one takes the
\* observed engine slug (private-network id) when that is non-empty and stays
\* unset when it is empty; a non-empty tag set is kept; an empty one becomes
\* a copy of the observed tags, so stays empty when there are none; no other
\* field changes.
C12_LateInitFillsUnsetFromNonEmpty ==
    [][LateInitStep =>
         LET p == spec
             q == spec'
             o == calls'[1].arg
         IN /\ (q.Version # p.Version
                  <=> (p.Version = Nil /\ o.EngineSlug # ""))
            /\ (q.PrivateNetworkUUID # p.PrivateNetworkUUID
                  <=> (p.PrivateNetworkUUID = Nil /\ o.PrivateNetworkUUID # ""))
            /\ (q.Tags # p.Tags <=> (p.Tags = << >> /\ o.Tags # << >>))
            /\ (q.Version # p.Version => q.Version = o.EngineSlug)
            /\ (q.PrivateNetworkUUID # p.PrivateNetworkUUID
                  => q.PrivateNetworkUUID = o.PrivateNetworkUUID)
            /\ (p.Tags = << >> => q.Tags = o.Tags)
            /\ q.Engine = p.Engine /\ q.NumNodes = p.NumNodes
            /\ q.Size = p.Size /\ q.Region = p.Region]_vars

\* An unset version and an empty tag set filled from the observed cluster,
\* next to a private-network id that was set and is kept.
C12_Witness ==
    /\ ret.op = "LateInitializeSpec"
    /\ spec.Version = "pg" /\ calls[1].arg.EngineSlug = "pg"
    /\ spec.Tags = <<"a", "b">> /\ calls[1].arg.Tags = <<"a", "b">>
    /\ spec.PrivateNetworkUUID = "net"
    /\ calls[1].arg.PrivateNetworkUUID = "vpc"

\* C13: the status mapper follows the table: creating gives Creating, online
\* Available, forking Unavailable; migrating, resizing and any other value
\* leave the condition as it was; no value raises an error.
C13_StatusMapperTable ==
    [][ret'.op = "setCrossplaneStatus" =>
         LET status == atProvider'.Status
         IN /\ (status = "creating" => condition' = "Creating")
            /\ (status = "online" => condition' = "Available")
            /\ (status = "forking" => condition' = "Unavailable")
            /\ (status \notin {"creating", "online", "forking"}
                  => condition' = condition)
            /\ ret'.err = NoErr /\ ~ret'.panic]_vars

\* The mapper applied to a migrating cluster whose condition was Deleting.
C13_Witness ==
    /\ ret.op = "setCrossplaneStatus"
    /\ atProvider.Status = "migrating" /\ condition = "Deleting"

\* C14: the request builder is an identity mapping: the request's name,
\* engine, version, node count, size, region and tags are the inputs, and an
\* optional string that is unset gives the empty string.
C14_RequestBuilderIdentity ==
    ret.op = "GenerateDatabase" =>
        LET n == calls[1].arg
            create == calls[1].res
            Value(ptr) == IF ptr = Nil THEN "" ELSE ptr
        IN /\ create.Name = n
           /\ create.EngineSlug = Value(spec.Engine)
           /\ create.Version = Value(spec.Version)
           /\ create.NumNodes = spec.NumNodes
           /\ create.SizeSlug = spec.Size
           /\ create.Region = spec.Region
           /\ create.PrivateNetworkUUID = Value(spec.PrivateNetworkUUID)
           /\ create.Tags = spec.Tags

\* A request built from a desired state with no private network, a version,
\* an engine and three nodes.
C14_Witness ==
    /\ ret.op = "GenerateDatabase"
    /\ spec.PrivateNetworkUUID = Nil /\ calls[1].res.PrivateNetworkUUID = ""
    /\ spec.Version = "12" /\ spec.Engine = "pg"
    /\ calls[1].res.NumNodes = 3 /\ calls[1].res.Tags = <<"x">>

\* The remote fetch of the Observe just made has succeeded.
FetchedNow ==
    /\ ret'.op = "Observe"
    /\ calls' # << >>
    /\ calls'[1].api = "Get"
    /\ calls'[1].err = NoErr

\* C15: after a successful remote fetch, Observe writes the resource to the
\* object store if and only if late-initialization changed the desired
\* state; when that write fails, Observe returns the error wrapped with the
\* cannot-update tag instead of exists=true.
C15_WriteIffLateInitialized ==
    [][FetchedNow =>
         LET written == Len(calls') = 2 /\ calls'[2].api = "kube.Update"
         IN /\ Len(calls') \in {1, 2}
            /\ (written <=> spec' # spec)
            /\ ((written /\ calls'[2].err # NoErr)
                  => (ret'.err = <<errDBUpdate>> \o calls'[2].err
                      /\ ~ret'.exists))
            /\ (~(written /\ calls'[2].err # NoErr)
                  => (ret'.err = NoErr /\ ret'.exists))]_vars

\* An Observe whose late-initialization write was refused.
C15_Witness ==
    /\ ret.op = "Observe" /\ Len(calls) = 2
    /\ calls[2].api = "kube.Update" /\ calls[2].err # NoErr
    /\ ret.err = <<errDBUpdate>> \o calls[2].err /\ ~ret.exists

\* C16: after every Create that returns a nil error, the external name is
\* the identifier the remote service assigned in the create response.
C16_CreateBindsAssignedId ==
    (ret.op = "Create" /\ IsDB /\ ret.err = NoErr)
        => /\ Len(calls) = 1
           /\ calls[1].api = "Create"
           /\ calls[1].res # Nil
           /\ extName = calls[1].res

\* C17: Create on a Database Cluster leaves the condition Creating on every
\* path past the type check.
C17_CreateSetsCreating ==
    (ret.op = "Create" /\ IsDB) => condition = "Creating"

\* The name-required path, with the condition set.
C17_Witness ==
    /\ ret.op = "Create" /\ IsDB /\ condition = "Creating"
    /\ ret.err = New(errDBNameRequired)

\* C18 (as stated): the condition is a function of ObservedState.status
\* alone: no verb changes the condition without changing the status, and a
\* resource with the never-observed status has the condition it started
\* with.
C18_ConditionFunctionOfStatus ==
    [][/\ (condition' # condition => atProvider'.Status # atProvider.Status)
       /\ (atProvider'.Status = "" => condition' = "unspecified")]_vars

MappedStatuses == {"creating", "online", "forking"}

\* C18 (amended): the condition follows the status only through a successful
\* Observe of a creating, online or forking cluster, which sets it to
\* Creating, Available or Unavailable; every other change of the condition is
\* Create setting Creating or Delete setting Deleting on a Database Cluster,
\* whatever the status is.
C18_ConditionChanges ==
    [][/\ ((ret'.op = "Observe" /\ ret'.exists
             /\ atProvider'.Status \in MappedStatuses)
            => condition' = (CASE atProvider'.Status = "creating" -> "Creating"
                               [] atProvider'.Status = "online" -> "Available"
                               [] atProvider'.Status = "forking" -> "Unavailable"))
       /\ (condition' # condition
            => \/ /\ ret'.op = "Observe" /\ ret'.exists
                  /\ atProvider'.Status \in MappedStatuses
               \/ ret'.op = "Create" /\ IsDB /\ condition' = "Creating"
               \/ ret'.op = "Delete" /\ IsDB /\ condition' = "Deleting")]_vars

\* A resource observed online (Available) and then deleted: same status, a
\* different condition.
C18_Witness ==
    /\ ret.op = "Delete" /\ condition = "Deleting"
    /\ atProvider.Status = "online"

\* C19: late-initialization is idempotent: late-initializing again from the
\* same observed cluster leaves the desired state as the first time left it,
\* so the second of two Observes that fetch the same remote state has
\* nothing to write.
C19_LateInitIdempotent ==
    ret.op = "LateInitializeSpec"
        => ~SpecChanged(spec, LateInitializeSpec(spec, calls[1].arg))

\* A desired state whose version, private network and tags were all filled
\* from the observed cluster.
C19_Witness ==
    /\ ret.op = "LateInitializeSpec"
    /\ spec.Version = "pg" /\ spec.PrivateNetworkUUID = "vpc"
    /\ spec.Tags = <<"a", "b">>
    /\ calls[1].arg.EngineSlug = "pg"
    /\ calls[1].arg.PrivateNetworkUUID = "vpc"
    /\ calls[1].arg.Tags = <<"a", "b">>

\* C20: the loop reaches an Observe that reports exists=true, and exactly
\* one remote create is issued over the whole run (every create of the loop
\* adds one cluster to the remote service, which held none).
C20_ConvergesWithOneCreate ==
    /\ <>(ret.op = "Observe" /\ ret.exists)
    /\ [](Cardinality(remote) <= 1)
    /\ []((ret.op = "Observe" /\ ret.exists) => Cardinality(remote) = 1)

\* The loop after its create: the cluster is observed under the identifier
\* it was assigned.
C20_Witness ==
    /\ ret.op = "Observe" /\ ret.exists
    /\ Cardinality(remote) = 1 /\ extName \in remote
    /\ atProvider.ID = extName

=============================================================================
